---- MODULE Spec2Model ----
(***************************************************************************)
(* The OU benchmark of this repository (c/ou_bench.c, ts/ou_bench.ts,      *)
(* v/ou_bench.v and the Swift port) as a state machine.                    *)
(*                                                                         *)
(* Representation.                                                         *)
(*  - A uint32_t is a pair <<hi, lo>> of 16-bit halves, so that every      *)
(*    operation is exact modulo 2^32 (TLC's integers are 32-bit signed).   *)
(*  - A double holding a sample, a buffer element or the checksum is a     *)
(*    fixed-point integer with Q = 2^8 units per 1.0; products and         *)
(*    quotients are rounded towards minus infinity.  log and sqrt (libm)   *)
(*    are computed in that fixed point.                                    *)
(*  - A double holding a duration in seconds is an integer count of half   *)
(*    clock ticks, so that the /2.0 of the even median is exact.           *)
(***************************************************************************)
EXTENDS Integers, Sequences, FiniteSets, TLC

(***************************************************************************)
(* Bounds of the model.                                                    *)
(***************************************************************************)
MaxN == 3
MaxRuns == 3
MaxWarmup == 1
MaxClock == 2

(***************************************************************************)
(* uint32_t arithmetic on <<hi, lo>> pairs.                                *)
(***************************************************************************)
H == 65536

Pow2(k) == 2 ^ k

RECURSIVE XorN(_, _, _)
XorN(a, b, bits) ==
    IF bits = 0 THEN 0
    ELSE ((a + b) % 2) + 2 * XorN(a \div 2, b \div 2, bits - 1)

RECURSIVE OrN(_, _, _)
OrN(a, b, bits) ==
    IF bits = 0 THEN 0
    ELSE (IF (a % 2) + (b % 2) > 0 THEN 1 ELSE 0) + 2 * OrN(a \div 2, b \div 2, bits - 1)

Xor32(a, b) == <<XorN(a[1], b[1], 16), XorN(a[2], b[2], 16)>>

Or32(a, b) == <<OrN(a[1], b[1], 16), OrN(a[2], b[2], 16)>>

\* a << k, for 0 < k < 16, modulo 2^32
Shl32(a, k) ==
    << ((a[1] % Pow2(16 - k)) * Pow2(k)) + (a[2] \div Pow2(16 - k)),
       (a[2] % Pow2(16 - k)) * Pow2(k) >>

\* a >> k, for 0 < k < 32
Shr32(a, k) ==
    IF k >= 16
    THEN <<0, a[1] \div Pow2(k - 16)>>
    ELSE << a[1] \div Pow2(k),
            (a[2] \div Pow2(k)) + ((a[1] % Pow2(k)) * Pow2(16 - k)) >>

Add32(a, b) ==
    LET lo == a[2] + b[2]
    IN  << (a[1] + b[1] + (lo \div H)) % H, lo % H >>

\* (a * b) mod 2^16 for 16-bit a, b, by 8-bit limbs
MulLo16(a, b) ==
    LET a0 == a % 256  a1 == a \div 256
        b0 == b % 256  b1 == b \div 256
    IN  (a0 * b0 + 256 * ((a0 * b1 + a1 * b0) % 256)) % H

\* (a * b) div 2^16 for 16-bit a, b, by 8-bit limbs
MulHi16(a, b) ==
    LET a0 == a % 256  a1 == a \div 256
        b0 == b % 256  b1 == b \div 256
        mid == a0 * b1 + a1 * b0
        low == a0 * b0 + 256 * (mid % 256)
    IN  a1 * b1 + (mid \div 256) + (low \div H)

\* wrapping 32-bit multiplication
Mul32(a, b) ==
    << (MulHi16(a[2], b[2]) + MulLo16(a[1], b[2]) + MulLo16(a[2], b[1])) % H,
       MulLo16(a[2], b[2]) >>

Zero32 == <<0, 0>>

One32 == <<0, 1>>

(***************************************************************************)
(* splitmix32_next: the accumulator after the call and the value returned. *)
(* Each intermediate value is computed once and handed on as an argument.  *)
(***************************************************************************)
GOLDEN == <<40503, 31161>>   \* 0x9E3779B9

MIX1 == <<34283, 51819>>     \* 0x85EBCA6B

MIX2 == <<49842, 44597>>     \* 0xC2B2AE35

\* z ^ (z >> k)
XorShr(z, k) == Xor32(z, Shr32(z, k))

\* the three mixing lines applied to the incremented accumulator
SplitmixMix(s1) ==
    XorShr(Mul32(XorShr(Mul32(XorShr(s1, 16), MIX1), 13), MIX2), 16)

SplitmixOut(s1) == [s |-> s1, out |-> SplitmixMix(s1)]

\* variant: the accumulator left where it is
SplitmixStill(s) == SplitmixOut(s)

splitmix32_next(s) == SplitmixOut(Add32(s, GOLDEN))

(***************************************************************************)
(* xorshift128_new: four seed words, w forced to 1 if all are zero.        *)
(***************************************************************************)
\* variant: the four results stored last to first
SeedWReversed(r1, r2, r3, r4) ==
    [x |-> r4.out, y |-> r3.out, z |-> r2.out, w |-> r1.out]

SeedW(r1, r2, r3, r4) ==
    [x |-> r1.out, y |-> r2.out, z |-> r3.out,
     w |-> IF Or32(Or32(r1.out, r2.out), Or32(r3.out, r4.out)) = Zero32
           THEN One32 ELSE r4.out]

SeedZ(r1, r2, r3) == SeedW(r1, r2, r3, splitmix32_next(r3.s))

SeedY(r1, r2) == SeedZ(r1, r2, splitmix32_next(r2.s))

SeedX(r1) == SeedY(r1, splitmix32_next(r1.s))

xorshift128_new(seed) == SeedX(splitmix32_next(seed))

(***************************************************************************)
(* xorshift128_next_u32: the generator after the call and the value.       *)
(***************************************************************************)
\* variant: w written where t belongs, so the last two terms cancel the first
XorshiftWCancel(rng, t) == Xor32(XorShr(rng.w, 19), XorShr(rng.w, 19))

\* w ^ (w >> 19) ^ t ^ (t >> 8)
XorshiftW(rng, t) == Xor32(XorShr(rng.w, 19), XorShr(t, 8))

XorshiftRotate(rng, w) ==
    [rng |-> [x |-> rng.y, y |-> rng.z, z |-> rng.w, w |-> w], out |-> w]

xorshift128_next_u32(rng) ==
    XorshiftRotate(rng, XorshiftW(rng, Xor32(rng.x, Shl32(rng.x, 11))))

(***************************************************************************)
(* xorshift128_next_f64: two draws a, b; k = (a >> 5) * 2^26 + (b >> 6)    *)
(* is kept as its two limbs <<a >> 5, b >> 6>>; val is k / 2^53 in fixed   *)
(* point, i.e. the top FracBits bits of a.                                 *)
(***************************************************************************)
FracBits == 8

SqrtQ == Pow2(FracBits \div 2)

Q == SqrtQ * SqrtQ

ToInt(a) == a[1] * H + a[2]   \* only for values below 2^31

\* (hi << 26) | lo on uint64, as the limbs <<u >> 26, u % 2^26>>
ShlOr53(hi, lo) == << OrN(hi, lo \div Pow2(26), 38), lo % Pow2(26) >>

F64Value(rng, a, b, hi27, lo26) ==
    [rng |-> rng, a |-> a, b |-> b, k |-> ShlOr53(hi27, lo26),
     val |-> hi27 \div Pow2(27 - FracBits)]

\* variant: b shifted by 5 like a
F64SecondShift5(ra, rb) ==
    F64Value(rb.rng, ra.out, rb.out,
             ToInt(Shr32(ra.out, 5)), ToInt(Shr32(rb.out, 5)))

F64Second(ra, rb) ==
    F64Value(rb.rng, ra.out, rb.out,
             ToInt(Shr32(ra.out, 5)), ToInt(Shr32(rb.out, 6)))

F64First(ra) == F64Second(ra, xorshift128_next_u32(ra.rng))

xorshift128_next_f64(rng) == F64First(xorshift128_next_u32(rng))

(***************************************************************************)
(* ou_bench.ts: the same generator on JavaScript numbers.  An int32 is a   *)
(* signed integer; a number of uint32 range (the result of >>> or a hex    *)
(* literal) is kept as the two halves of its 32 bits.                      *)
(***************************************************************************)
\* the bits of the int32 v, as `v >>> 0` reads them
ToUint32(v) ==
    IF v >= 0 THEN <<v \div H, v % H>>
    ELSE << (((v + Pow2(30)) + Pow2(30)) \div H) + Pow2(15),
            ((v + Pow2(30)) + Pow2(30)) % H >>

\* `a | 0`: the 32 bits a read as an int32
ToInt32(a) ==
    IF a[1] < Pow2(15) THEN a[1] * H + a[2]
    ELSE (((a[1] - Pow2(15)) * H + a[2]) - Pow2(30)) - Pow2(30)

\* Math.imul(a, c) | 0
Imul(a, c) == ToInt32(Mul32(ToUint32(a), c))

\* variant: z >> k, the shift that keeps the sign
UShrSigned(z, k) == ToUint32(z \div Pow2(k))

\* z >>> k
UShr(z, k) == Shr32(ToUint32(z), k)

\* z ^ (z >>> k), an int32
XorUShr(z, k) == ToInt32(Xor32(ToUint32(z), UShr(z, k)))

\* splitmix32_next(state): s1 is state.s after (state.s + 0x9e3779b9) | 0
SplitmixOutTS(s1) ==
    [s |-> s1,
     out |-> ToUint32(XorUShr(Imul(XorUShr(Imul(XorUShr(s1, 16), MIX1), 13),
                                   MIX2), 16))]

splitmix32_next_ts(s) == SplitmixOutTS(ToInt32(Add32(ToUint32(s), GOLDEN)))

\* new XorShift128(seed): the four int32 words
XorShift128(seed) ==
    LET r1 == splitmix32_next_ts(ToInt32(seed))
        r2 == splitmix32_next_ts(r1.s)
        r3 == splitmix32_next_ts(r2.s)
        r4 == splitmix32_next_ts(r3.s)
    IN  [x |-> ToInt32(r1.out), y |-> ToInt32(r2.out), z |-> ToInt32(r3.out),
         w |-> IF ToInt32(Or32(Or32(r1.out, r2.out), Or32(r3.out, r4.out))) = 0
               THEN 1 ELSE ToInt32(r4.out)]

\* nextU32() with t = (this.x ^ (this.x << 11)) | 0 computed
NextU32W(o, t) ==
    ToInt32(Xor32(ToUint32(XorUShr(o.w, 19)), ToUint32(XorUShr(t, 8))))

nextU32(o) ==
    LET w == NextU32W(o, ToInt32(Xor32(ToUint32(o.x), Shl32(ToUint32(o.x), 11))))
    IN  [rng |-> [x |-> o.y, y |-> o.z, z |-> o.w, w |-> w],
         out |-> ToUint32(w)]

\* hi * 67108864 + lo on numbers, as the limbs <<u div 2^26, u % 2^26>>
MulAdd53(hi, lo) == << hi + (lo \div Pow2(26)), lo % Pow2(26) >>

NextF64Second(ra, rb) ==
    [rng |-> rb.rng, a |-> ra.out, b |-> rb.out,
     k |-> MulAdd53(ToInt(Shr32(ra.out, 5)), ToInt(Shr32(rb.out, 6))),
     val |-> ToInt(Shr32(ra.out, 5)) \div Pow2(27 - FracBits)]

nextF64(o) ==
    LET a == nextU32(o)
    IN  NextF64Second(a, nextU32(a.rng))

\* the int32 words of a TypeScript generator as uint32 words, and back
Image(o) == [x |-> ToUint32(o.x), y |-> ToUint32(o.y), z |-> ToUint32(o.z),
             w |-> ToUint32(o.w)]

Object(rng) == [x |-> ToInt32(rng.x), y |-> ToInt32(rng.y),
                z |-> ToInt32(rng.z), w |-> ToInt32(rng.w)]

\* the generator of implementation l: construction, a draw, a uniform
New(l, seed) ==
    IF l = "ts" THEN Image(XorShift128(seed)) ELSE xorshift128_new(seed)

Draw(l, rng) ==
    IF l = "ts"
    THEN LET d == nextU32(Object(rng))
         IN  [rng |-> Image(d.rng), out |-> d.out]
    ELSE xorshift128_next_u32(rng)

Uniform(l, rng) ==
    IF l = "ts"
    THEN LET f == nextF64(Object(rng))
         IN  [f EXCEPT !.rng = Image(f.rng)]
    ELSE xorshift128_next_f64(rng)

(***************************************************************************)
(* double arithmetic in fixed point, and libm's sqrt and log.              *)
(***************************************************************************)
FMul(x, y) == (x * y) \div Q

FDiv(x, y) == (x * Q) \div y

RECURSIVE ISqrtFrom(_, _, _)
ISqrtFrom(v, root, bit) ==
    IF bit = 0 THEN root
    ELSE IF (root + bit) * (root + bit) <= v
         THEN ISqrtFrom(v, root + bit, bit \div 2)
         ELSE ISqrtFrom(v, root, bit \div 2)

\* sqrt of the fixed-point value v
FSqrt(v) == ISqrtFrom(v, 0, 16384) * SqrtQ

RECURSIVE FloorLog2(_)
FloorLog2(v) == IF v <= 1 THEN 0 ELSE 1 + FloorLog2(v \div 2)

LN2 == (693 * Q) \div 1000

\* log2 of s2 / Q^2 by exponent e and linearly interpolated mantissa
FLog2FromExp(s2, e) ==
    e * Q + ((s2 - Pow2(e)) * Q) \div Pow2(e) - 2 * FracBits * Q

\* log of s2 / Q^2 for 0 < s2 < Q^2 (a negative fixed-point value)
FLogOfSq(s2) == (FLog2FromExp(s2, FloorLog2(s2)) * LN2) \div Q

(***************************************************************************)
(* normal_polar_init / normal_polar_next.  s2 is s = u*u + v*v in units of *)
(* 1/Q^2 (exact for the fixed-point u and v), so that s > 0.0 && s < 1.0   *)
(* is 0 < s2 < Q^2.                                                        *)
(***************************************************************************)
normal_polar_init == [has_spare |-> FALSE, spare |-> 0]

\* m = sqrt((-2.0 * log(s)) / s)
PolarM(s2) == FSqrt(((-2 * FLogOfSq(s2)) * Q * Q) \div s2)

\* if (s > 0.0 && s < 1.0)
Accepts(s2) == s2 > 0 /\ s2 < Q * Q

\* the for (;;) loop: iters counts the iterations, the last one accepted
RECURSIVE PolarLoop(_, _)
\* variant: a rejected point costs one more draw before the next point
PolarJudgeSkipping(rng, u, v, s2, iters) ==
    IF Accepts(s2)
    THEN [rng |-> rng, u |-> u, v |-> v, s2 |-> s2, m |-> PolarM(s2),
          iters |-> iters + 1]
    ELSE PolarLoop(xorshift128_next_u32(rng).rng, iters + 1)

PolarJudge(rng, u, v, s2, iters) ==
    IF Accepts(s2)
    THEN [rng |-> rng, u |-> u, v |-> v, s2 |-> s2, m |-> PolarM(s2),
          iters |-> iters + 1]
    ELSE PolarLoop(rng, iters + 1)

PolarPoint(rng, u, v, iters) == PolarJudge(rng, u, v, u * u + v * v, iters)

PolarSecond(fu, fv, iters) ==
    PolarPoint(fv.rng, 2 * fu.val - Q, 2 * fv.val - Q, iters)

PolarFirst(fu, iters) == PolarSecond(fu, xorshift128_next_f64(fu.rng), iters)

PolarLoop(rng, iters) == PolarFirst(xorshift128_next_f64(rng), iters)

\* variant: the spare caches u * m, the value being returned
PolarReturnSame(acc) ==
    [norm |-> [has_spare |-> TRUE, spare |-> FMul(acc.u, acc.m)],
     rng |-> acc.rng,
     out |-> FMul(acc.u, acc.m), fresh |-> TRUE,
     u |-> acc.u, v |-> acc.v, s2 |-> acc.s2, m |-> acc.m,
     iters |-> acc.iters]

\* n->spare = v * m; n->has_spare = 1; return u * m;
PolarReturn(acc) ==
    [norm |-> [has_spare |-> TRUE, spare |-> FMul(acc.v, acc.m)],
     rng |-> acc.rng,
     out |-> FMul(acc.u, acc.m), fresh |-> TRUE,
     u |-> acc.u, v |-> acc.v, s2 |-> acc.s2, m |-> acc.m,
     iters |-> acc.iters]

\* variant: the call that returns the spare draws from the generator
PolarSpareDrawing(norm, rng) ==
    [norm |-> [has_spare |-> FALSE, spare |-> norm.spare],
     rng |-> xorshift128_next_u32(rng).rng,
     out |-> norm.spare, fresh |-> FALSE,
     u |-> 0, v |-> 0, s2 |-> 0, m |-> 0, iters |-> 0]

\* if (n->has_spare) { n->has_spare = 0; return n->spare; }
PolarSpare(norm, rng) ==
    [norm |-> [has_spare |-> FALSE, spare |-> norm.spare], rng |-> rng,
     out |-> norm.spare, fresh |-> FALSE,
     u |-> 0, v |-> 0, s2 |-> 0, m |-> 0, iters |-> 0]

\* the sampler and generator after the call, the value returned, and what
\* the call did: fresh (a rejection loop ran) with its u, v, s2, m, iters
normal_polar_next(norm, rng) ==
    IF norm.has_spare
    THEN PolarSpare(norm, rng)
    ELSE PolarReturn(PolarLoop(rng, 0))

(***************************************************************************)
(* The benchmark driver (main).                                            *)
(***************************************************************************)
Seeds == { <<0, 1>>, <<25032, 34375>> }   \* 1 (the default) and 0x61C88647

Modes == {"full", "gn", "ou"}

\* "c" is c/ou_bench.c; "ts" is ts/ou_bench.ts, whose main the V and the Swift
\* programs repeat statement for statement
Langs == {"c", "ts"}

VARIABLES
    inv,          \* 1: the first invocation of the process, 2: the second
    lang,         \* the implementation that runs
    args,         \* args_t after parse_args, with the --mode given
    refArgs,      \* args of the first invocation
    phase,        \* where main is: alloc, prefill, warmup, timed, ...
    r,            \* loop index of the warmup loop or of the timed loop
    pos,          \* index of the next stage of the current iteration
    i,            \* loop index inside the generate stage
    gn, ou,       \* the noise buffer and the trajectory buffer
    pairs,        \* the generator/sampler pairs: prefill, warmup, timed
    calls,        \* per pair: calls made of normal_polar_next, last two calls
    now,          \* last reading of the monotonic clock
    ts,           \* timestamps taken so far in the current trial (t0, t1, ..)
    s,            \* the local sum of the checksum stage
    checksum,
    total_s, total_gen_s, total_sim_s, total_chk_s,
    min_s, max_s,
    run_times,    \* the array that is sorted in place for the median
    recorded,     \* the durations in the order the trials recorded them
    median_s,
    trace,        \* control point and data of every state of invocation 1
    heap,         \* per buffer: none, live, failed or freed, and the counts
                  \* of its allocations and of its resizes
    status,       \* "running", or how the process ended: "success" (exit
                  \* status 0) or "failure" (nonzero)
    stderr,       \* the diagnostic written to the error stream, "" if none
    printed,      \* the result lines have been printed
    argv,         \* the command line: flags <<key, value text>>
    argi          \* index of the flag parse_args looks at next

vars == << inv, lang, args, refArgs, phase, r, pos, i, gn, ou, pairs, calls,
           now, ts, s, checksum, total_s, total_gen_s, total_sim_s,
           total_chk_s, min_s, max_s, run_times, recorded, median_s, trace,
           heap, status, stderr, printed, argv, argi >>

\* the C program has no --mode: it ignores the flag and runs every stage
HasModes(l) == l # "c"

EffMode == IF HasModes(lang) THEN args.mode ELSE "full"

\* const double T, theta, mu, sigma and the derived dt, a, b, diff
T_ == Q

THETA == Q

MU == 0

SIGMA == Q \div 10

DT(n) == FDiv(T_, n * Q)

A(n) == Q - FMul(THETA, DT(n))

B(n) == FMul(FMul(THETA, MU), DT(n))

DIFF(n) == FMul(SIGMA, FSqrt(DT(n)))

\* malloc leaves C's buffers uninitialised (main writes every element before
\* it reads it); the other implementations zero them
Poison == 0 - Pow2(24)

FreshCell == IF lang = "c" THEN Poison ELSE 0

\* 1e300 (C, V) or +Infinity (TS, Swift): above every duration
Huge == Pow2(30)

\* (double)(t_b - t_a) * 1e-9, in half ticks
Secs(d) == 2 * d

NoRng == [x |-> Zero32, y |-> Zero32, z |-> Zero32, w |-> Zero32]

NoPair == [live |-> FALSE, rng |-> NoRng, norm |-> normal_polar_init]

NoCall == [fresh |-> FALSE, out |-> 0, u |-> 0, v |-> 0, s2 |-> 0, m |-> 0,
           iters |-> 0, before |-> NoRng, after |-> NoRng]

NoCalls == [k |-> 0, last |-> NoCall, prev |-> NoCall]

PairNames == {"prefill", "warmup", "timed"}

\* variant: the clock stirred into the seed
NewPairFromClock(seed) ==
    [live |-> TRUE, rng |-> xorshift128_new(Add32(seed, <<0, now>>)),
     norm |-> normal_polar_init]

\* xorshift128_new(args.seed) with normal_polar_init
NewPair(seed) == [live |-> TRUE, rng |-> xorshift128_new(seed),
                  norm |-> normal_polar_init]

\* variant: the prefill seeded with seed + 1
PrefillPairOther == NewPair(Add32(args.seed, One32))

\* variant: the timed trials go on with the warmup's generator and sampler
TimedPairContinued == pairs["warmup"]

\* the pair each phase constructs from args.seed
PrefillPair == NewPair(args.seed)

WarmupPair == NewPair(args.seed)

TimedPair == NewPair(args.seed)

WarmStages(m) ==
    CASE m = "full" -> <<"gen", "sim", "chk">>
      [] m = "gn"   -> <<"gen", "chk">>
      [] m = "ou"   -> <<"sim", "chk">>

TimedStages(m) ==
    CASE m = "full" -> <<"stamp", "gen", "stamp", "sim", "stamp", "chk", "stamp", "rec">>
      [] m = "gn"   -> <<"stamp", "gen", "stamp", "chk", "stamp", "rec">>
      [] m = "ou"   -> <<"stamp", "sim", "stamp", "chk", "stamp", "rec">>

Stage ==
    CASE phase = "warmup" -> WarmStages(EffMode)[pos]
      [] phase = "timed"  -> TimedStages(EffMode)[pos]
      [] OTHER            -> phase

RECURSIVE SumTo(_, _)
SumTo(buf, k) == IF k < 0 THEN 0 ELSE SumTo(buf, k - 1) + buf[k]

\* double s = 0.0; for (i = 0; i < len; i++) s += buf[i];
SumBuf(buf, len) == SumTo(buf, len - 1)

\* variant: the decay factor a left out
OUStepNoDecay(n, x, g) == x + B(n) + g

\* x = a * x + b + gn[i - 1]
OUStep(n, x, g) == FMul(A(n), x) + B(n) + g

\* ou[0] = 0; for (i = 1; i < n; i++) { x = a*x + b + gn[i-1]; ou[i] = x; }
RECURSIVE SimFrom(_, _, _, _, _)
SimStore(n, noise, traj, x1, k) ==
    SimFrom(n, noise, [traj EXCEPT ![k] = x1], x1, k + 1)

SimFrom(n, noise, traj, x, k) ==
    IF k >= n THEN traj
    ELSE SimStore(n, noise, traj, OUStep(n, x, noise[k - 1]), k)

SimulateOU(n, noise, traj) == SimFrom(n, noise, [traj EXCEPT ![0] = 0], 0, 1)

(***************************************************************************)
(* Sorting the run times and the median.                                   *)
(***************************************************************************)
Swap(a, j, k) == [a EXCEPT ![j] = a[k], ![k] = a[j]]

\* C: for (i = 0; i < runs - 1; i++) for (j = i + 1; j < runs; j++)
\*      if (run_times[j] < run_times[i]) swap      (indices from 1 here)
RECURSIVE SortInner(_, _, _)
SortInner(a, j, k) ==
    IF k > Len(a) THEN a
    ELSE SortInner(IF a[k] < a[j] THEN Swap(a, j, k) ELSE a, j, k + 1)

RECURSIVE SortOuter(_, _)
SortOuter(a, j) ==
    IF j > Len(a) - 1 THEN a
    ELSE SortOuter(SortInner(a, j, j + 1), j + 1)

\* variant: the outer loop runs once
SortCOnePass(a) == SortInner(a, 1, 2)

SortC(a) == SortOuter(a, 1)

\* the library sorts (runTimes.sort((a, b) => a - b), times.sort()):
\* insertion into an ascending sequence
RECURSIVE InsertAsc(_, _)
InsertAsc(a, x) ==
    IF a = <<>> THEN <<x>>
    ELSE IF x < Head(a) THEN <<x>> \o a
         ELSE <<Head(a)>> \o InsertAsc(Tail(a), x)

RECURSIVE SortLib(_)
SortLib(a) == IF a = <<>> THEN <<>> ELSE InsertAsc(SortLib(Tail(a)), Head(a))

SortTimes(l, a) == IF l = "c" THEN SortC(a) ELSE SortLib(a)

\* (runs % 2 == 1) ? t[runs / 2] : (t[runs / 2 - 1] + t[runs / 2]) / 2.0
MedianOfSorted(a) ==
    LET runs == Len(a)
    IN  IF runs % 2 = 1
        THEN a[(runs \div 2) + 1]
        ELSE (a[runs \div 2] + a[(runs \div 2) + 1]) \div 2

Median(l, a) == MedianOfSorted(SortTimes(l, a))

(***************************************************************************)
(* Init: the process has parsed its arguments.                             *)
(***************************************************************************)
ArgsSet == [n : 2..MaxN, runs : 1..MaxRuns, warmup : 0..MaxWarmup,
            seed : Seeds, mode : Modes]

Buffers == {"gn", "ou", "run_times"}

NoHeap == [b \in Buffers |-> [state |-> "none", allocs |-> 0, resizes |-> 0]]

\* what malloc leaves of buffer b: ok is whether it returned non-NULL
Malloc(h, b, ok) ==
    [h EXCEPT ![b] = [state |-> IF ok THEN "live" ELSE "failed",
                      allocs |-> IF ok THEN @.allocs + 1 ELSE @.allocs,
                      resizes |-> @.resizes]]

\* runTimes.push(runMs): the array grows
Push(h, b) == [h EXCEPT ![b].resizes = @ + 1]

\* free(b)
Free(h, b) == [h EXCEPT ![b].state = "freed"]

\* the locals of main before main has run
Blank ==
    /\ heap = NoHeap
    /\ status = "running" /\ stderr = "" /\ printed = FALSE
    /\ r = 0 /\ pos = 0 /\ i = 0
    /\ gn = <<>> /\ ou = <<>>
    /\ pairs = [p \in PairNames |-> NoPair]
    /\ calls = [p \in PairNames |-> NoCalls]
    /\ ts = <<>>
    /\ s = 0 /\ checksum = 0
    /\ total_s = 0 /\ total_gen_s = 0 /\ total_sim_s = 0 /\ total_chk_s = 0
    /\ min_s = 0 /\ max_s = 0
    /\ run_times = <<>> /\ recorded = <<>>
    /\ median_s = 0

\* what a process starts with, whatever ran before
Fresh == phase = "alloc" /\ Blank

Label == <<phase, r, pos, i>>

Data == [pairs |-> pairs, gn |-> gn, ou |-> ou, checksum |-> checksum]

Snap == [label |-> Label, data |-> Data]

Init ==
    /\ inv = 1
    /\ lang \in Langs
    /\ args \in ArgsSet
    /\ refArgs = args
    /\ now \in 0..MaxClock      \* CLOCK_MONOTONIC starts anywhere
    /\ argv = <<>> /\ argi = 0
    /\ Fresh
    /\ trace = <<Snap>>

(***************************************************************************)
(* The actions of main.                                                    *)
(***************************************************************************)
\* the driver's loop counters, buffers and accumulators, by group
\* the process as its environment sees it, and its command line
process == << heap, status, stderr, printed >>

cmdline == << argv, argi >>

timing == << now, ts, total_s, total_gen_s, total_sim_s, total_chk_s,
             min_s, max_s, run_times, recorded, median_s >>

config == << inv, lang, args, refArgs >>

\* invocation 1 logs every state it passes through
Log == trace' = IF inv' = 1 THEN Append(trace, Snap') ELSE trace

\* what the allocations may return: malloc may return NULL (the first
\* invocation meets every outcome, the second has the memory the first had);
\* the other implementations have no failure path of their own
Mallocs ==
    IF lang = "c" /\ inv = 1 THEN [gn : BOOLEAN, ou : BOOLEAN, run_times : BOOLEAN]
    ELSE {[gn |-> TRUE, ou |-> TRUE, run_times |-> TRUE]}

\* variant: the check passes unless both allocations failed
AllocFailedBoth(got) == ~got.gn /\ ~got.ou

\* variant: the check fails whatever malloc returned
AllocFailedAlways(got) == TRUE

\* if (!gn || !ou)
AllocFailed(got) == ~got.gn \/ ~got.ou

\* fprintf(stderr, "allocation failed\n"); return 1;
Abort(msg) ==
    /\ phase' = "exit"
    /\ status' = "failure"
    /\ stderr' = msg

\* gn = malloc((n - 1) * sizeof(double)); ou = malloc(n * sizeof(double))
Allocate ==
    /\ phase = "alloc"
    /\ \E got \in Mallocs :
          /\ got.run_times
          /\ heap' = Malloc(Malloc(heap, "gn", got.gn), "ou", got.ou)
          /\ IF AllocFailed(got)
             THEN /\ Abort("allocation failed")
                  /\ UNCHANGED << gn, ou >>
             ELSE /\ gn' = [j \in 0..(args.n - 2) |-> FreshCell]
                  /\ ou' = [j \in 0..(args.n - 1) |-> FreshCell]
                  /\ phase' = IF EffMode = "ou" THEN "prefill_new"
                              ELSE "warmup_new"
                  /\ UNCHANGED << status, stderr >>
    /\ UNCHANGED << config, cmdline, printed, r, pos, i, pairs, calls, s,
                    checksum, timing >>
    /\ Log

\* if (mode === "ou") { rngPrefill = new XorShift128(seed); ... }
PrefillConstruct ==
    /\ phase = "prefill_new"
    /\ pairs' = [pairs EXCEPT !["prefill"] = PrefillPair]
    /\ phase' = "prefill"
    /\ i' = 0
    /\ UNCHANGED << config, cmdline, process, r, pos, gn, ou, calls, s, checksum, timing >>
    /\ Log

\* what a call c of normal_polar_next on pair p leaves behind
GenStore(p, c) ==
    /\ gn' = [gn EXCEPT ![i] = FMul(DIFF(args.n), c.out)]
    /\ pairs' = [pairs EXCEPT ![p] = [live |-> TRUE, rng |-> c.rng,
                                      norm |-> c.norm]]
    /\ calls' = [calls EXCEPT ![p] =
                    [k |-> @.k + 1,
                     last |-> [fresh |-> c.fresh, out |-> c.out,
                               u |-> c.u, v |-> c.v, s2 |-> c.s2,
                               m |-> c.m, iters |-> c.iters,
                               before |-> pairs[p].rng, after |-> c.rng],
                     prev |-> @.last]]

\* variant: generator and sampler set up anew at the top of every pass
GenCallReseeded(p) ==
    GenStore(p, normal_polar_next(
                    IF i = 0 THEN normal_polar_init ELSE pairs[p].norm,
                    IF i = 0 THEN xorshift128_new(args.seed) ELSE pairs[p].rng))

\* one iteration of a generate loop on pair p:
\*   gn[i] = diff * normal_polar_next(&norm, &rng);
GenCall(p) == GenStore(p, normal_polar_next(pairs[p].norm, pairs[p].rng))

\* variant: the loop test i < n, one pass more
GenDoneLate == i + 1 >= args.n

\* the loop test i < n - 1 after i++
GenDone == i + 1 >= args.n - 1

PrefillGen ==
    /\ phase = "prefill"
    /\ GenCall("prefill")
    /\ IF GenDone
       THEN phase' = "warmup_new" /\ i' = 0
       ELSE phase' = phase /\ i' = i + 1
    /\ UNCHANGED << config, cmdline, process, r, pos, ou, s, checksum, timing >>
    /\ Log

\* { xorshift128_t rng = xorshift128_new(args.seed); normal_polar_init(&norm);
WarmupConstruct ==
    /\ phase = "warmup_new"
    /\ pairs' = [pairs EXCEPT !["warmup"] = WarmupPair]
    /\ r' = 0 /\ i' = 0
    /\ IF 0 < args.warmup
       THEN phase' = "warmup" /\ pos' = 1
       ELSE phase' = "timed_new" /\ pos' = 0
    /\ UNCHANGED << config, cmdline, process, gn, ou, calls, s, checksum, timing >>
    /\ Log

WarmupGen ==
    /\ phase = "warmup" /\ Stage = "gen"
    /\ GenCall("warmup")
    /\ IF GenDone
       THEN pos' = pos + 1 /\ i' = 0
       ELSE pos' = pos /\ i' = i + 1
    /\ UNCHANGED << config, cmdline, process, phase, r, ou, s, checksum, timing >>
    /\ Log

WarmupSimulate ==
    /\ phase = "warmup" /\ Stage = "sim"
    /\ ou' = SimulateOU(args.n, gn, ou)
    /\ pos' = pos + 1
    /\ UNCHANGED << config, cmdline, process, phase, r, i, gn, pairs, calls, s, checksum, timing >>
    /\ Log

\* variant: the sum stops one element short
SumOfModeShort ==
    IF EffMode = "gn" THEN SumBuf(gn, args.n - 2) ELSE SumBuf(ou, args.n - 1)

\* the buffer the checksum stage sums, and its length
SumOfMode == IF EffMode = "gn" THEN SumBuf(gn, args.n - 1) ELSE SumBuf(ou, args.n)

\* s = sum; if (s == 123456789.0) printf("impossible\n"); then r++
WarmupSum ==
    /\ phase = "warmup" /\ Stage = "chk"
    /\ s' = SumOfMode
    /\ r' = r + 1
    /\ IF r + 1 < args.warmup
       THEN phase' = "warmup" /\ pos' = 1
       ELSE phase' = "timed_new" /\ pos' = 0
    /\ UNCHANGED << config, cmdline, process, i, gn, ou, pairs, calls, checksum, timing >>
    /\ Log

\* xorshift128_t rng = xorshift128_new(args.seed); normal_polar_init(&norm);
\* the totals, min_s = 1e300, max_s = 0.0, run_times, checksum = 0.0
TimedConstruct ==
    /\ phase = "timed_new"
    /\ pairs' = [pairs EXCEPT !["timed"] = TimedPair]
    /\ total_s' = 0 /\ total_gen_s' = 0 /\ total_sim_s' = 0 /\ total_chk_s' = 0
    /\ min_s' = Huge /\ max_s' = 0
    /\ run_times' = <<>> /\ recorded' = <<>>
    /\ \E got \in Mallocs :
          /\ got.gn /\ got.ou
          /\ heap' = Malloc(heap, "run_times", got.run_times)
          /\ IF ~got.run_times
             THEN /\ Abort("allocation failed")
                  /\ UNCHANGED << checksum, r, i, pos >>
             ELSE /\ checksum' = 0
                  /\ r' = 0 /\ i' = 0 /\ pos' = 1
                  /\ phase' = "timed"
                  /\ UNCHANGED << status, stderr >>
    /\ UNCHANGED << config, cmdline, printed, gn, ou, calls, s, now, ts,
                    median_s >>
    /\ Log

\* what now_ns() may return: the last reading or one tick more; the clock of
\* the second invocation stands still
Readings == IF inv = 1 THEN { t \in {now, now + 1} : t <= MaxClock } ELSE {now}

\* uint64_t t = now_ns();
Stamp ==
    /\ phase = "timed" /\ Stage = "stamp"
    /\ \E t \in Readings :
          /\ now' = t
          /\ ts' = Append(ts, t)
    /\ pos' = pos + 1
    /\ UNCHANGED << config, cmdline, process, phase, r, i, gn, ou, pairs, calls, s, checksum,
                    total_s, total_gen_s, total_sim_s, total_chk_s, min_s,
                    max_s, run_times, recorded, median_s >>
    /\ Log

\* variant: the generate stage allocates its noise buffer on entry
TimedGenAllocating ==
    /\ phase = "timed" /\ Stage = "gen"
    /\ GenCall("timed")
    /\ heap' = IF i = 0 THEN Malloc(heap, "gn", TRUE) ELSE heap
    /\ IF GenDone
       THEN pos' = pos + 1 /\ i' = 0
       ELSE pos' = pos /\ i' = i + 1
    /\ UNCHANGED << config, cmdline, status, stderr, printed, phase, r, ou, s,
                    checksum, timing >>
    /\ Log

TimedGen ==
    /\ phase = "timed" /\ Stage = "gen"
    /\ GenCall("timed")
    /\ IF GenDone
       THEN pos' = pos + 1 /\ i' = 0
       ELSE pos' = pos /\ i' = i + 1
    /\ UNCHANGED << config, cmdline, process, phase, r, ou, s, checksum, timing >>
    /\ Log

TimedSimulate ==
    /\ phase = "timed" /\ Stage = "sim"
    /\ ou' = SimulateOU(args.n, gn, ou)
    /\ pos' = pos + 1
    /\ UNCHANGED << config, cmdline, process, phase, r, i, gn, pairs, calls, s, checksum, timing >>
    /\ Log

\* s = sum; checksum += s;
TimedChecksum ==
    /\ phase = "timed" /\ Stage = "chk"
    /\ s' = SumOfMode
    /\ checksum' = checksum + SumOfMode
    /\ pos' = pos + 1
    /\ UNCHANGED << config, cmdline, process, phase, r, i, gn, ou, pairs, calls, timing >>
    /\ Log

\* the durations of the trial from its timestamps, per mode
Durations(m, t) ==
    CASE m = "full" -> [gen |-> Secs(t[2] - t[1]), sim |-> Secs(t[3] - t[2]),
                        chk |-> Secs(t[4] - t[3]), run |-> Secs(t[4] - t[1])]
      [] m = "gn"   -> [gen |-> Secs(t[2] - t[1]), sim |-> 0,
                        chk |-> Secs(t[3] - t[2]), run |-> Secs(t[3] - t[1])]
      [] m = "ou"   -> [gen |-> 0, sim |-> Secs(t[2] - t[1]),
                        chk |-> Secs(t[3] - t[2]), run |-> Secs(t[3] - t[1])]

\* variant: the comparison of the minimum turned round
LesserTurned(cur, run) == IF run > cur THEN run ELSE cur

\* if (run < min_s) min_s = run;
Lesser(cur, run) == IF run < cur THEN run ELSE cur

\* variant: the maximum never replaced
GreaterKept(cur, run) == cur

\* if (run > max_s) max_s = run;
Greater(cur, run) == IF run > cur THEN run ELSE cur

\* total_* += ...; run_times[r] = run; min/max; r++
Record ==
    /\ phase = "timed" /\ Stage = "rec"
    /\ LET d == Durations(EffMode, ts)
       IN  /\ total_gen_s' = total_gen_s + d.gen
           /\ total_sim_s' = total_sim_s + d.sim
           /\ total_chk_s' = total_chk_s + d.chk
           /\ total_s' = total_s + d.run
           /\ run_times' = Append(run_times, d.run)
           /\ recorded' = Append(recorded, d.run)
           /\ min_s' = Lesser(min_s, d.run)
           /\ max_s' = Greater(max_s, d.run)
    /\ ts' = <<>>
    /\ r' = r + 1
    /\ IF r + 1 < args.runs
       THEN phase' = "timed" /\ pos' = 1
       ELSE phase' = "stats" /\ pos' = 0
    /\ heap' = IF lang = "c" THEN heap ELSE Push(heap, "run_times")
    /\ UNCHANGED << config, cmdline, status, stderr, printed, i, gn, ou, pairs,
                    calls, s, checksum, now, median_s >>
    /\ Log

\* sort run_times, take the median, print the report, free, return 0
Statistics ==
    /\ phase = "stats"
    /\ run_times' = SortTimes(lang, run_times)
    /\ median_s' = Median(lang, run_times)
    /\ phase' = "done"
    /\ printed' = TRUE
    /\ heap' = IF lang = "c"
               THEN Free(Free(Free(heap, "gn"), "ou"), "run_times")
               ELSE heap
    /\ status' = "success"
    /\ UNCHANGED << config, cmdline, stderr, r, pos, i, gn, ou, pairs, calls,
                    s, checksum, now, ts, total_s, total_gen_s, total_sim_s,
                    total_chk_s, min_s, max_s, recorded >>
    /\ Log

\* the report: x_ms = x_s * 1000.0, avg_ms = (total_s / runs) * 1000.0
Milli(x) == 1000 * x

avg_ms == Milli(total_s) \div args.runs

min_ms == Milli(min_s)

max_ms == Milli(max_s)

\* the same program again with the same --n, --runs and --seed, and any
\* --warmup and --mode: a new process
Reinvoke ==
    /\ inv = 1 /\ phase = "done"
    /\ inv' = 2
    /\ \E w \in 0..MaxWarmup, m \in Modes :
          args' = [args EXCEPT !.warmup = w, !.mode = m]
    /\ phase' = "alloc"
    /\ r' = 0 /\ pos' = 0 /\ i' = 0
    /\ gn' = <<>> /\ ou' = <<>>
    /\ pairs' = [p \in PairNames |-> NoPair]
    /\ calls' = [p \in PairNames |-> NoCalls]
    /\ now' = 0 /\ ts' = <<>>
    /\ s' = 0 /\ checksum' = 0
    /\ total_s' = 0 /\ total_gen_s' = 0 /\ total_sim_s' = 0 /\ total_chk_s' = 0
    /\ min_s' = 0 /\ max_s' = 0
    /\ run_times' = <<>> /\ recorded' = <<>>
    /\ median_s' = 0
    /\ heap' = NoHeap
    /\ status' = "running" /\ stderr' = "" /\ printed' = FALSE
    /\ UNCHANGED << lang, refArgs, cmdline >>
    /\ Log

Next ==
    \/ Allocate
    \/ PrefillConstruct
    \/ PrefillGen
    \/ WarmupConstruct
    \/ WarmupGen
    \/ WarmupSimulate
    \/ WarmupSum
    \/ TimedConstruct
    \/ Stamp
    \/ TimedGen
    \/ TimedSimulate
    \/ TimedChecksum
    \/ Record
    \/ Statistics
    \/ Reinvoke

Spec == Init /\ [][Next]_vars

\* the steps of main that compute on the generator or the buffers, and the
\* control points at which one of them is the next statement
Compute ==
    \/ PrefillConstruct \/ PrefillGen
    \/ WarmupConstruct \/ WarmupGen \/ WarmupSimulate \/ WarmupSum
    \/ TimedConstruct \/ TimedGen \/ TimedSimulate \/ TimedChecksum
    \/ Statistics

Computing ==
    \/ phase \in {"prefill_new", "prefill", "warmup_new", "warmup",
                  "timed_new", "stats"}
    \/ phase = "timed" /\ Stage \in {"gen", "sim", "chk"}

\* the process is one thread, which executes its next statement whenever it
\* has one: weak fairness of every step.  For the steps of Compute weak
\* fairness is written out with Computing, their enabling condition (each is
\* a total function of the state once its control point is reached).
SpecLive ==
    /\ Init /\ [][Next]_vars
    /\ WF_vars(Allocate \/ Stamp \/ Record \/ Reinvoke)
    /\ ([]<>(~Computing) \/ []<><<Compute>>_vars)

(***************************************************************************)
(* The generator alone: xorshift128_new on a sweep of seeds, then          *)
(* successive xorshift128_next_u32 calls.                                  *)
(***************************************************************************)
MaxSeedLo == 15

MaxDraws == 5

\* 0 - a (mod 2^32)
Neg32(a) == Add32(Xor32(a, <<H - 1, H - 1>>), One32)

\* the seeds after which the j-th splitmix32 accumulator is 0
ZeroSeeds == { Neg32(Mul32(GOLDEN, <<0, j>>)) : j \in 1..4 }

SweepSeeds ==
    Seeds \cup ZeroSeeds
          \cup { <<hi, lo>> : hi \in {0, H \div 2, H - 1}, lo \in 0..MaxSeedLo }

InitRng ==
    /\ inv = 0
    /\ lang \in Langs
    /\ \E seed \in SweepSeeds :
          args = [n |-> 2, runs |-> 1, warmup |-> 0, seed |-> seed,
                  mode |-> "full"]
    /\ refArgs = args
    /\ now = 0
    /\ phase = "rng_new"
    /\ argv = <<>> /\ argi = 0
    /\ Blank
    /\ trace = <<>>

\* xorshift128_t rng = xorshift128_new(seed);
RngNew ==
    /\ phase = "rng_new"
    /\ pairs' = [pairs EXCEPT !["timed"] =
                    [live |-> TRUE, rng |-> New(lang, args.seed),
                     norm |-> normal_polar_init]]
    /\ phase' = "rng"
    /\ UNCHANGED << config, cmdline, process, r, pos, i, gn, ou, calls, s, checksum, timing >>
    /\ Log

\* the generator after the call, and the call's frame
RngStore(c, frame) ==
    /\ pairs' = [pairs EXCEPT !["timed"] = [@ EXCEPT !.rng = c.rng]]
    /\ calls' = [calls EXCEPT !["timed"] =
                    [k |-> @.k + 1, last |-> frame, prev |-> @.last]]

\* (void)xorshift128_next_u32(&rng);
RngDraw ==
    /\ phase = "rng" /\ i < MaxDraws
    /\ LET c == Draw(lang, pairs["timed"].rng)
       IN  RngStore(c, [kind |-> "u32", out |-> c.out,
                        before |-> pairs["timed"].rng, after |-> c.rng])
    /\ i' = i + 1
    /\ UNCHANGED << config, cmdline, process, phase, r, pos, gn, ou, s, checksum, timing >>
    /\ Log

\* (void)xorshift128_next_f64(&rng);
RngUniform ==
    /\ phase = "rng" /\ i + 2 <= MaxDraws
    /\ LET f == Uniform(lang, pairs["timed"].rng)
       IN  RngStore(f, [kind |-> "f64", a |-> f.a, b |-> f.b, k |-> f.k,
                        val |-> f.val, before |-> pairs["timed"].rng,
                        after |-> f.rng])
    /\ i' = i + 2
    /\ UNCHANGED << config, cmdline, process, phase, r, pos, gn, ou, s, checksum, timing >>
    /\ Log

NextRng == RngNew \/ RngDraw \/ RngUniform

SpecRng == InitRng /\ [][NextRng]_vars

(***************************************************************************)
(* The closing statistics alone, on every short sequence of run times.     *)
(***************************************************************************)
MaxTimes == 4

MaxDur == 3

DurSeqs == UNION { [1..m -> { Secs(d) : d \in 0..MaxDur }] : m \in 1..MaxTimes }

\* total_s, min_s and max_s as the timed loop leaves them after the trials a
RECURSIVE AfterTrials(_)
AfterTrials(a) ==
    IF a = <<>> THEN [total |-> 0, min |-> Huge, max |-> 0]
    ELSE LET b == AfterTrials(SubSeq(a, 1, Len(a) - 1))
             run == a[Len(a)]
         IN  [total |-> b.total + run, min |-> Lesser(b.min, run),
              max |-> Greater(b.max, run)]

InitMedian ==
    /\ inv = 0
    /\ lang \in Langs
    /\ run_times \in DurSeqs
    /\ recorded = run_times
    /\ args = [n |-> 2, runs |-> Len(run_times), warmup |-> 0,
               seed |-> <<0, 1>>, mode |-> "full"]
    /\ refArgs = args
    /\ now = 0
    /\ phase = "stats"
    /\ r = Len(run_times) /\ pos = 0 /\ i = 0
    /\ gn = <<>> /\ ou = <<>>
    /\ pairs = [p \in PairNames |-> NoPair]
    /\ calls = [p \in PairNames |-> NoCalls]
    /\ ts = <<>>
    /\ s = 0 /\ checksum = 0
    /\ total_s = AfterTrials(run_times).total
    /\ total_gen_s = 0 /\ total_sim_s = 0 /\ total_chk_s = 0
    /\ min_s = AfterTrials(run_times).min /\ max_s = AfterTrials(run_times).max
    /\ median_s = 0
    /\ trace = <<>>
    /\ heap = [b \in Buffers |-> [state |-> "live", allocs |-> 1,
                                   resizes |-> 0]]
    /\ status = "running" /\ stderr = "" /\ printed = FALSE
    /\ argv = <<>> /\ argi = 0

NextMedian == Statistics

SpecMedian == InitMedian /\ [][NextMedian]_vars

(***************************************************************************)
(* parse_args alone.  A flag is <<key, value text>>, a text is a sequence  *)
(* of characters.  The value texts hold digits, signs and letters only (no *)
(* blank, '.', exponent or 0x prefix).                                     *)
(***************************************************************************)
MaxArgs == 1

ParseLangs == {"c", "ts", "v", "swift"}

Digits == <<"0", "1", "2", "3", "4", "5", "6", "7", "8", "9">>

IsDigit(ch) == \E k \in 1..10 : Digits[k] = ch

DigitVal(ch) == (CHOOSE k \in 1..10 : Digits[k] = ch) - 1

\* the value of the digits from index k on, up to the first non-digit
RECURSIVE DigitsFrom(_, _, _)
DigitsFrom(text, k, acc) ==
    IF k > Len(text) \/ ~IsDigit(text[k])
    THEN [val |-> acc, end |-> k]
    ELSE DigitsFrom(text, k + 1, 10 * acc + DigitVal(text[k]))

\* a uint64_t as four 16-bit limbs, the least significant first
Zero64 == <<0, 0, 0, 0>>

\* 10 * acc + digit in 64 bits, and whether it went past 2^64 - 1
WideStep(w, d) ==
    LET t1 == 10 * w.val[1] + d
        t2 == 10 * w.val[2] + (t1 \div H)
        t3 == 10 * w.val[3] + (t2 \div H)
        t4 == 10 * w.val[4] + (t3 \div H)
    IN  [val |-> <<t1 % H, t2 % H, t3 % H, t4 % H>>,
         over |-> w.over \/ t4 >= H]

\* the 64-bit value of the digits from index k on, up to the first non-digit
RECURSIVE WideFrom(_, _, _)
WideFrom(text, k, w) ==
    IF k > Len(text) \/ ~IsDigit(text[k])
    THEN [val |-> w.val, over |-> w.over, end |-> k]
    ELSE WideFrom(text, k + 1, WideStep(w, DigitVal(text[k])))

WideDigits(text, k) == WideFrom(text, k, [val |-> Zero64, over |-> FALSE])

\* variant: the cast keeps 16 bits
Low16(w) == <<0, w[1]>>

\* (uint32_t)(v & 0xFFFFFFFFu), u32(...), >>> 0: the low 32 bits
Low32(w) == <<w[2], w[1]>>

RECURSIVE SkipSpace(_, _)
SkipSpace(text, k) ==
    IF k <= Len(text) /\ text[k] = " " THEN SkipSpace(text, k + 1) ELSE k

HasSign(text, k) == k <= Len(text) /\ text[k] \in {"-", "+"}

Signed(text, k, d) == IF k <= Len(text) /\ text[k] = "-" THEN 0 - d.val ELSE d.val

\* atoll, strtoull: blanks, an optional sign, then digits; what follows the
\* digits is ignored and no digits at all give 0
AtollFrom(text, k) ==
    Signed(text, k, DigitsFrom(text, IF HasSign(text, k) THEN k + 1 ELSE k, 0))

atoll(text) == AtollFrom(text, SkipSpace(text, 1))

\* V's string.int(): an optional sign, then the leading digits
VInt(text) == AtollFrom(text, 1)

\* strtoull(s + 7, NULL, 10), cast to uint32_t: blanks, an optional sign,
\* then digits; ULLONG_MAX past 2^64 - 1, and a minus sign negates mod 2^64
strtoull(text) ==
    LET k == SkipSpace(text, 1)
        d == WideDigits(text, IF HasSign(text, k) THEN k + 1 ELSE k)
    IN  IF d.over THEN <<H - 1, H - 1>>
        ELSE IF k <= Len(text) /\ text[k] = "-" THEN Neg32(Low32(d.val))
        ELSE Low32(d.val)

\* V's u32(string.u64()): the leading digits (texts here stay below 2^64)
VU64(text) == Low32(WideDigits(text, 1).val)

\* the whole text is an optional sign and at least one digit
WholeInt(text, k, d) == d.end > Len(text) /\ d.end > k

StrictFrom(text, k) ==
    [some |-> WholeInt(text, k, DigitsFrom(text, k, 0)),
     val |-> Signed(text, 1, DigitsFrom(text, k, 0))]

\* Swift's Int(val): nil unless the whole text is an integer
SwiftInt(text) == StrictFrom(text, IF HasSign(text, 1) THEN 2 ELSE 1)

\* Swift's UInt64(val) & 0xFFFF_FFFF: nil unless the whole text is an
\* optional "+" and digits that fit 64 bits
SwiftUInt64(text) ==
    LET k == IF Len(text) >= 1 /\ text[1] = "+" THEN 2 ELSE 1
        d == WideDigits(text, k)
    IN  [some |-> d.end > Len(text) /\ d.end > k /\ ~d.over,
         val |-> Low32(d.val)]

\* val.length ? Number(val) : NaN, on texts of digits, signs and letters
NumberJS(text) ==
    IF text = <<>> THEN [some |-> FALSE, val |-> 0] ELSE SwiftInt(text)

\* Number(val) of a whole number below 2^54: itself below 2^53, above it
\* the nearest even number, of two the one that is a multiple of 4
NearestDouble(w) ==
    IF w[4] < Pow2(5) \/ w[1] % 2 = 0 THEN Low32(w)
    ELSE IF w[1] % 4 = 1 THEN <<w[2], w[1] - 1>>
    ELSE Add32(Low32(w), One32)

\* case "seed": Number(val), num < 0 throws, Math.floor(num) >>> 0
\* (texts of at most 16 digits, so num < 2^54)
SeedJS(text) ==
    LET k == IF HasSign(text, 1) THEN 2 ELSE 1
        d == WideDigits(text, k)
    IN  [some |-> /\ d.end > Len(text) /\ d.end > k
                  /\ (text[1] = "-" => d.val = Zero64),
         val |-> NearestDouble(d.val)]

\* v < 2, v < 1, v < 0
MinOf(key) ==
    CASE key = "n" -> 2 [] key = "runs" -> 1 [] OTHER -> 0

\* variant: every lower limit one too low
TooSmallLax(key, v) == v < MinOf(key) - 1

TooSmall(key, v) == v < MinOf(key)

NumKeys == {"n", "runs", "warmup", "seed"}

\* what the implementation reads from the value text of a numeric flag,
\* and whether it goes on with it
NumValue(l, key, text) ==
    CASE l = "c" ->
           [ok |-> ~TooSmall(key, atoll(text)), val |-> atoll(text)]
      [] l = "v" ->
           [ok |-> ~TooSmall(key, VInt(text)), val |-> VInt(text)]
      [] l = "ts" ->
           [ok |-> NumberJS(text).some /\ ~TooSmall(key, NumberJS(text).val),
            val |-> NumberJS(text).val]
      [] l = "swift" ->
           [ok |-> SwiftInt(text).some /\ ~TooSmall(key, SwiftInt(text).val),
            val |-> SwiftInt(text).val]

\* what the implementation reads from the value text of --seed, reduced to
\* 32 bits, and whether it goes on with it
SeedValue(l, text) ==
    CASE l = "c" -> [ok |-> TRUE, val |-> strtoull(text)]
      [] l = "v" -> [ok |-> TRUE, val |-> VU64(text)]
      [] l = "ts" ->
           [ok |-> text # <<>> /\ SeedJS(text).some,
            val |-> IF text = <<>> THEN Zero32 ELSE SeedJS(text).val]
      [] l = "swift" ->
           [ok |-> SwiftUInt64(text).some, val |-> SwiftUInt64(text).val]

ModeTexts ==
    { <<"f", "u", "l", "l">>, <<"g", "n">>, <<"o", "u">> }

OutputTexts == { <<"t", "e", "x", "t">>, <<"j", "s", "o", "n">> }

\* the enum value a text names
EnumName(text) ==
    CASE text = <<"f", "u", "l", "l">> -> "full"
      [] text = <<"g", "n">> -> "gn"
      [] text = <<"o", "u">> -> "ou"
      [] text = <<"t", "e", "x", "t">> -> "text"
      [] text = <<"j", "s", "o", "n">> -> "json"

EnumTexts(key) == IF key = "mode" THEN ModeTexts ELSE OutputTexts

\* the flag makes the implementation stop with a diagnostic; the C program
\* has no branch for --mode and --output
Rejects(l, f) ==
    IF f[1] = "seed" THEN ~SeedValue(l, f[2]).ok
    ELSE IF f[1] \in NumKeys THEN ~NumValue(l, f[1], f[2]).ok
    ELSE l # "c" /\ f[2] \notin EnumTexts(f[1])

\* the arguments after an accepted flag
Store(l, a, f) ==
    CASE f[1] = "seed" -> [a EXCEPT !.seed = SeedValue(l, f[2]).val]
      [] f[1] \in NumKeys \ {"seed"} ->
           [a EXCEPT ![f[1]] = NumValue(l, f[1], f[2]).val]
      [] OTHER -> IF l = "c" THEN a ELSE [a EXCEPT ![f[1]] = EnumName(f[2])]

Diagnostic(key) ==
    CASE key = "n" -> "--n must be >= 2"
      [] key = "runs" -> "--runs must be >= 1"
      [] key = "warmup" -> "--warmup must be >= 0"
      [] key = "seed" -> "--seed must be >= 0"
      [] key = "mode" -> "--mode must be full|gn|ou"
      [] key = "output" -> "--output must be text|json"

\* a.n = 500000; a.runs = 1000; a.warmup = 5; a.seed = 1; mode full, text
Defaults ==
    [n |-> 500000, runs |-> 1000, warmup |-> 5, seed |-> <<0, 1>>,
     mode |-> "full", output |-> "text"]

NumTexts ==
    { <<>>, <<"0">>, <<"1">>, <<"2">>, <<"3">>, <<"-", "1">>, <<"+", "2">>,
      <<"a", "b", "c">>, <<"x", "y", "z">>, <<"5", "x">>, <<"-", "y">> }

\* seeds past 2^32: 2^32 - 1, 2^32, 2^32 + 1, 2^33 - 1, 2^53 - 1 - 2^32,
\* 2^53 - 1 and 2^53 + 1
SeedTexts ==
    { <<"4", "2", "9", "4", "9", "6", "7", "2", "9", "5">>,
      <<"4", "2", "9", "4", "9", "6", "7", "2", "9", "6">>,
      <<"4", "2", "9", "4", "9", "6", "7", "2", "9", "7">>,
      <<"8", "5", "8", "9", "9", "3", "4", "5", "9", "1">>,
      <<"9", "0", "0", "7", "1", "9", "4", "9", "5", "9", "7", "7", "3", "6", "9", "5">>,
      <<"9", "0", "0", "7", "1", "9", "9", "2", "5", "4", "7", "4", "0", "9", "9", "1">>,
      <<"9", "0", "0", "7", "1", "9", "9", "2", "5", "4", "7", "4", "0", "9", "9", "3">> }

Flags ==
    (NumKeys \X NumTexts) \cup ({"seed"} \X SeedTexts)
      \cup ({"mode"} \X (ModeTexts \cup { <<"g", "n", "x">>, <<>> }))
      \cup ({"output"} \X (OutputTexts \cup { <<"x", "m", "l">> }))

Commands == UNION { [1..m -> Flags] : m \in 0..MaxArgs }

InitArgs ==
    /\ inv = 0
    /\ lang \in ParseLangs
    /\ argv \in Commands
    /\ argi = 0
    /\ args = Defaults
    /\ refArgs = args
    /\ now = 0
    /\ phase = "parse"
    /\ Blank
    /\ trace = <<>>

\* one turn of the loop over argv
ParseFlag ==
    /\ phase = "parse" /\ argi < Len(argv)
    /\ argi' = argi + 1
    /\ IF Rejects(lang, argv[argi + 1])
       THEN /\ Abort(Diagnostic(argv[argi + 1][1]))
            /\ args' = args
       ELSE /\ args' = Store(lang, args, argv[argi + 1])
            /\ UNCHANGED << phase, status, stderr >>
    /\ UNCHANGED << inv, lang, refArgs, argv, heap, printed, r, pos, i, gn, ou,
                    pairs, calls, s, checksum, timing >>
    /\ Log

\* return a; main goes on to allocate
ParseReturn ==
    /\ phase = "parse" /\ argi = Len(argv)
    /\ phase' = "alloc"
    /\ UNCHANGED << config, cmdline, process, r, pos, i, gn, ou, pairs, calls,
                    s, checksum, timing >>
    /\ Log

NextArgs == ParseFlag \/ ParseReturn

SpecArgs == InitArgs /\ [][NextArgs]_vars

(***************************************************************************)
(* Properties.  Invocation 2 repeats invocation 1, whose states are in     *)
(* trace; a state of invocation 2 is compared with the state invocation 1  *)
(* had at the same control point.                                          *)
(***************************************************************************)
TimedPhases == {"timed", "stats", "done"}

\* the last stage of a timed trial: the trial's buffers are complete
RecPos(m) == Len(TimedStages(m))

\* C1: two invocations with the same --n, --runs, --warmup, --seed and --mode
\* pass through the same generator and sampler states, the same buffer
\* contents and the same checksum at every control point, whatever the clock
\* reads, and so print the same final checksum.
Deterministic ==
    (inv = 2 /\ args = refArgs) =>
        \E k \in 1..Len(trace) : trace[k] = Snap

\* C1 witness: a second invocation of the same command line has finished,
\* after a first one of at least two trials with a nonzero checksum.
DeterministicReached ==
    /\ inv = 2 /\ args = refArgs /\ phase = "done"
    /\ args.runs >= 2 /\ checksum # 0

\* C2: for any two warmup counts, the generator and sampler of the timed
\* phase are in the same state at the start of the first timed trial and at
\* every later control point, every completed trial has produced the same
\* buffers, and the checksum is the same.
WarmupIndependent ==
    (inv = 2 /\ args.mode = refArgs.mode /\ phase \in TimedPhases) =>
        \E k \in 1..Len(trace) :
            /\ trace[k].label = Label
            /\ trace[k].data.pairs["timed"] = pairs["timed"]
            /\ trace[k].data.checksum = checksum
            /\ Stage \in {"rec", "stats", "done"} =>
                   /\ trace[k].data.gn = gn
                   /\ trace[k].data.ou = ou

\* C2 witness: a run with one warmup count has finished its timed trials
\* after a run with another warmup count, in a mode that generates noise.
WarmupIndependentReached ==
    /\ inv = 2 /\ args.mode = refArgs.mode /\ args.warmup # refArgs.warmup
    /\ phase = "done" /\ EffMode # "ou" /\ checksum # 0

\* C3: the timed generator and sampler are constructed once from the seed;
\* during the timed phase only a generate step changes them, each by exactly
\* one normal_polar_next call on the state the previous call (of this trial
\* or of the trial before) left, and the call of trial r that stores gn[i]
\* is call number r * (n - 1) + i of that one stream.
OneStream ==
    [][ /\ phase = "timed_new" =>
              pairs'["timed"] = [live |-> TRUE,
                                 rng |-> xorshift128_new(args.seed),
                                 norm |-> normal_polar_init]
        /\ phase = "timed" =>
              IF Stage = "gen"
              THEN /\ calls["timed"].k = r * (args.n - 1) + i
                   /\ calls'["timed"].k = calls["timed"].k + 1
                   /\ LET c == normal_polar_next(pairs["timed"].norm,
                                                 pairs["timed"].rng)
                      IN  /\ pairs'["timed"].rng = c.rng
                          /\ pairs'["timed"].norm = c.norm
                          /\ gn'[i] = FMul(DIFF(args.n), c.out)
              ELSE pairs'["timed"] = pairs["timed"]
      ]_vars

\* C3 witness: with one sample per trial (n = 2), the second trial has
\* stored the spare that the first trial's call cached.
OneStreamReached ==
    /\ phase = "timed" /\ Stage = "rec" /\ EffMode # "ou"
    /\ args.n = 2 /\ r = 1
    /\ calls["timed"].k = 2 /\ ~calls["timed"].last.fresh
    /\ gn[0] = FMul(DIFF(args.n), FMul(calls["timed"].prev.v,
                                       calls["timed"].prev.m))

\* C4: on every sampler, call 2j-1 runs the rejection loop to an accepted
\* (u, v), returns u * m and caches v * m; call 2j returns that cached v * m
\* of the same iteration, and the generator is not advanced between the two
\* returns nor by the second call.
SpareCached ==
    \A p \in PairNames :
        /\ calls[p].k % 2 = 1 =>
              /\ calls[p].last.fresh
              /\ calls[p].last.iters >= 1
              /\ calls[p].last.s2 = calls[p].last.u * calls[p].last.u
                                    + calls[p].last.v * calls[p].last.v
              /\ calls[p].last.s2 > 0 /\ calls[p].last.s2 < Q * Q
              /\ calls[p].last.m = PolarM(calls[p].last.s2)
              /\ calls[p].last.out = FMul(calls[p].last.u, calls[p].last.m)
              /\ pairs[p].norm.has_spare
              /\ pairs[p].norm.spare = FMul(calls[p].last.v, calls[p].last.m)
        /\ (calls[p].k > 0 /\ calls[p].k % 2 = 0) =>
              /\ ~calls[p].last.fresh
              /\ calls[p].prev.fresh
              /\ calls[p].prev.out = FMul(calls[p].prev.u, calls[p].prev.m)
              /\ calls[p].last.out = FMul(calls[p].prev.v, calls[p].prev.m)
              /\ calls[p].last.before = calls[p].prev.after
              /\ calls[p].last.after = calls[p].last.before
              /\ pairs[p].rng = calls[p].last.after
              /\ ~pairs[p].norm.has_spare

\* C4 witness: an even call has returned a spare different from the value
\* the call before it returned, which had rejected a point first.
SpareCachedReached ==
    \E p \in PairNames :
        /\ calls[p].k > 0 /\ calls[p].k % 2 = 0
        /\ calls[p].prev.iters >= 2
        /\ calls[p].last.out # calls[p].prev.out

\* C5: the state xorshift128_new returns is never (0, 0, 0, 0), and no
\* number of xorshift128_next_u32 calls makes it so.
NonZeroState ==
    \A p \in PairNames :
        pairs[p].live =>
            pairs[p].rng # [x |-> Zero32, y |-> Zero32, z |-> Zero32,
                            w |-> Zero32]

\* C5 witness: a generator whose first seed word is 0 (seed 0x61C88647) has
\* been constructed and drawn from MaxDraws times.
NonZeroStateReached ==
    /\ phase = "rng" /\ i = MaxDraws
    /\ args.seed = Neg32(GOLDEN)
    /\ xorshift128_new(args.seed).x = Zero32

\* the checksum invocation 1 printed
RefChecksum == trace[Len(trace)].data.checksum

\* C6 (as stated): for every runs >= 1, a run with --mode=ou ends with the
\* same checksum as the run with --mode=full and the same n, runs and seed.
ModeEquivalent ==
    (inv = 2 /\ refArgs.mode = "full" /\ args.mode = "ou" /\ phase = "done") =>
        checksum = RefChecksum

\* C6 (amended): for runs = 1, a run with --mode=ou ends with the same
\* checksum as the run with --mode=full and the same n and seed, whatever
\* the two warmup counts.
ModeEquivalentOneRun ==
    (inv = 2 /\ refArgs.mode = "full" /\ args.mode = "ou" /\ phase = "done"
        /\ args.runs = 1) =>
        checksum = RefChecksum

\* C6 witness: an implementation with modes has finished a one-trial ou run
\* after a one-trial full run, with a nonzero checksum.
ModeEquivalentReached ==
    /\ inv = 2 /\ refArgs.mode = "full" /\ args.mode = "ou" /\ phase = "done"
    /\ args.runs = 1 /\ HasModes(lang) /\ args.n = MaxN /\ checksum # 0

\* C7 (as stated): in every implementation, with --mode=gn no warmup
\* iteration and no timed trial runs the simulate stage, and with --mode=ou
\* none runs a generate stage.
HonoursMode ==
    phase \in {"warmup", "timed"} =>
        /\ args.mode = "gn" => Stage # "sim"
        /\ args.mode = "ou" => Stage # "gen"

\* C8: a simulate stage leaves gn as it found it and leaves ou[0] = 0 and
\* ou[k] = a * ou[k-1] + b + gn[k-1] for every k in 1..n-1.
SimulationCorrect ==
    [][ (phase \in {"warmup", "timed"} /\ Stage = "sim") =>
            /\ gn' = gn
            /\ DOMAIN ou' = 0..(args.n - 1)
            /\ ou'[0] = 0
            /\ \A k \in 1..(args.n - 1) :
                  ou'[k] = FMul(A(args.n), ou'[k - 1]) + B(args.n) + gn[k - 1]
      ]_vars

\* C8 witness: a timed simulate stage has just run on the longest buffer and
\* left a trajectory that moved away from 0.
SimulationCorrectReached ==
    /\ phase = "timed" /\ pos > 1
    /\ TimedStages(EffMode)[pos - 1] = "sim"
    /\ args.n = MaxN
    /\ ou[1] # 0 /\ ou[args.n - 1] # ou[1]

\* the state invocation 1 was in when timed trial q had produced its buffers
TrialEnd(q) ==
    CHOOSE e \in { trace[k] : k \in 1..Len(trace) } :
        e.label = <<"timed", q, RecPos(EffMode), 0>>

\* the sum of every element of the buffer trial q produced
TrialSum(q) ==
    IF EffMode = "gn"
    THEN SumBuf(TrialEnd(q).data.gn, args.n - 1)
    ELSE SumBuf(TrialEnd(q).data.ou, args.n)

RECURSIVE TrialSums(_)
TrialSums(q) == IF q < 0 THEN 0 ELSE TrialSums(q - 1) + TrialSum(q)

CountBelow(seq, v) == Cardinality({ k \in DOMAIN seq : seq[k] < v })

CountAtMost(seq, v) == Cardinality({ k \in DOMAIN seq : seq[k] <= v })

\* the k-th smallest element of seq
Kth(seq, k) ==
    CHOOSE v \in { seq[j] : j \in DOMAIN seq } :
        CountBelow(seq, v) < k /\ CountAtMost(seq, v) >= k

Reordered(seq) ==
    { [k \in DOMAIN seq |-> seq[f[k]]] : f \in Permutations(DOMAIN seq) }

\* C10: the reported median is the middle element of the recorded durations
\* in ascending order when their number is odd and the mean of the two
\* middle elements when it is even, and it is the same for every order in
\* which the same durations could have been recorded.
MedianCorrect ==
    phase = "done" =>
        /\ median_s =
              IF Len(recorded) % 2 = 1
              THEN Kth(recorded, (Len(recorded) \div 2) + 1)
              ELSE (Kth(recorded, Len(recorded) \div 2)
                    + Kth(recorded, (Len(recorded) \div 2) + 1)) \div 2
        /\ \A q \in Reordered(recorded) : Median(lang, q) = median_s

\* C10 witness: the median of MaxTimes durations, recorded in an order that
\* is neither ascending nor descending, has been taken by the C sort.
MedianCorrectReached ==
    /\ phase = "done" /\ lang = "c"
    /\ Len(recorded) = MaxTimes
    /\ \E j \in 1..(MaxTimes - 2) :
          recorded[j] > recorded[j + 1] /\ recorded[j + 1] < recorded[j + 2]
    /\ median_s # recorded[MaxTimes \div 2]

RECURSIVE SumSeq(_)
SumSeq(seq) == IF seq = <<>> THEN 0 ELSE Head(seq) + SumSeq(Tail(seq))

\* C11: no warmup iteration records a duration; when the timed loop has
\* ended exactly runs durations are recorded, total_s is their sum, avg_ms
\* is total_s / runs * 1000, and min_ms and max_ms are the least and the
\* greatest recorded duration in milliseconds, never the sentinel 1e300.
StatisticsCorrect ==
    /\ phase \in {"alloc", "prefill_new", "prefill", "warmup_new", "warmup",
                  "timed_new"} => recorded = <<>>
    /\ phase = "timed" => Len(recorded) = r
    /\ phase \in {"stats", "done"} =>
          /\ Len(recorded) = args.runs
          /\ min_s # Huge
          /\ total_s = SumSeq(recorded)
          /\ avg_ms = (1000 * SumSeq(recorded)) \div args.runs
          /\ \E j \in 1..args.runs : min_ms = 1000 * recorded[j]
          /\ \A j \in 1..args.runs : min_ms <= 1000 * recorded[j]
          /\ \E j \in 1..args.runs : max_ms = 1000 * recorded[j]
          /\ \A j \in 1..args.runs : max_ms >= 1000 * recorded[j]

\* C11 witness: a run with a warmup iteration has ended its MaxRuns timed
\* trials, the first of them longer than a later one.
StatisticsCorrectReached ==
    /\ inv = 1 /\ phase = "done" /\ args.warmup > 0 /\ args.runs = MaxRuns
    /\ max_s > min_s /\ recorded[1] > min_s /\ total_s > max_s

\* C12: within one process, the noise buffer and the trajectory buffer are
\* each allocated once, by the step that precedes every warmup iteration; no
\* step from the first to the last timestamp of a timed trial allocates,
\* resizes or releases a buffer; and a buffer is released only by the step
\* that follows the last trial's recording.
AllocationOutside ==
    [][ inv' = inv =>
        /\ \A b \in {"gn", "ou"} :
              /\ heap'[b].allocs # heap[b].allocs =>
                     /\ phase = "alloc" /\ heap[b].allocs = 0
                     /\ calls["warmup"].k = 0 /\ r = 0
              /\ heap'[b].resizes = heap[b].resizes
        /\ (phase = "timed" /\ Stage # "rec") => heap' = heap
        /\ \A b \in Buffers :
              (heap'[b].state = "freed" /\ heap[b].state # "freed") =>
                  /\ phase = "stats" /\ r = args.runs /\ ts = <<>>
                  /\ Len(recorded) = args.runs
        /\ phase' \in {"warmup", "timed", "stats"} =>
              /\ heap'["gn"] = [state |-> "live", allocs |-> 1, resizes |-> 0]
              /\ heap'["ou"] = [state |-> "live", allocs |-> 1, resizes |-> 0]
      ]_vars

\* C12 witness: the C program has released its three buffers after MaxRuns
\* timed trials and a warmup iteration.
AllocationOutsideReached ==
    /\ lang = "c" /\ phase = "done" /\ args.runs = MaxRuns /\ args.warmup > 0
    /\ \A b \in Buffers : heap[b].state = "freed" /\ heap[b].allocs = 1

\* the text is an optional sign followed by digits, at least one
WellFormed(text) ==
    /\ Len(text) >= 1
    /\ \A k \in 2..Len(text) : IsDigit(text[k])
    /\ \/ IsDigit(text[1])
       \/ text[1] \in {"-", "+"} /\ Len(text) >= 2

\* the number its digits denote
RECURSIVE Magnitude(_, _)
Magnitude(text, k) ==
    IF k = 0 \/ ~IsDigit(text[k]) THEN 0
    ELSE DigitVal(text[k]) + 10 * Magnitude(text, k - 1)

IntValue(text) ==
    IF text[1] = "-" THEN 0 - Magnitude(text, Len(text))
    ELSE Magnitude(text, Len(text))

\* the flag supplies an integer below the least value its key admits
BelowRange(f) ==
    /\ f[1] \in {"n", "runs", "warmup"}
    /\ WellFormed(f[2])
    /\ \/ f[1] = "n" /\ IntValue(f[2]) < 2
       \/ f[1] = "runs" /\ IntValue(f[2]) < 1
       \/ f[1] = "warmup" /\ IntValue(f[2]) < 0

\* the process has ended during argument parsing, at flag j or before it,
\* with a nonzero status and a diagnostic naming the flag it stopped at,
\* having allocated nothing and run nothing
FailedBy(j) ==
    /\ phase = "exit" /\ status = "failure"
    /\ argi <= j
    /\ stderr = Diagnostic(argv[argi][1])
    /\ heap = NoHeap /\ ~printed
    /\ recorded = <<>> /\ \A p \in PairNames : calls[p].k = 0

\* C13: once parse_args has looked at a flag that supplies --n below 2,
\* --runs below 1 or --warmup below 0, the process has written a diagnostic
\* naming the flag and exited nonzero, before any allocation, warmup
\* iteration or timed trial.
RangeFailsFast ==
    \A j \in 1..Len(argv) :
        (BelowRange(argv[j]) /\ argi >= j) => FailedBy(j)

\* C13 witness: the C program has stopped at --warmup=-1.
RangeFailsFastReached ==
    /\ lang = "c" /\ phase = "exit" /\ argi >= 1
    /\ argv[argi] = <<"warmup", <<"-", "1">> >>

\* C14 (as stated): once parse_args has looked at a numeric flag whose value
\* is not a well-formed integer, the process has exited nonzero with a
\* diagnostic naming the flag; it never goes on with a substituted value.
MalformedFatal ==
    \A j \in 1..Len(argv) :
        (argv[j][1] \in NumKeys /\ ~WellFormed(argv[j][2]) /\ argi >= j) =>
            FailedBy(j)

\* C15 (as stated): in every implementation, once parse_args has looked at
\* a --mode value other than full, gn, ou or an --output value other than
\* text, json, the process has written a diagnostic and exited nonzero; main
\* is entered only when every enum flag was valid.
EnumFatal ==
    \A j \in 1..Len(argv) :
        (/\ argv[j][1] \in {"mode", "output"}
         /\ argv[j][2] \notin (IF argv[j][1] = "mode"
                               THEN { <<"f", "u", "l", "l">>, <<"g", "n">>,
                                      <<"o", "u">> }
                               ELSE { <<"t", "e", "x", "t">>,
                                      <<"j", "s", "o", "n">> })
         /\ argi >= j) => FailedBy(j)

\* C16: once malloc has returned NULL for gn, ou or run_times, the process
\* has written "allocation failed", has ended with a nonzero status and takes
\* no further step; it has read no timestamp, drawn nothing from the timed
\* generator, recorded no trial and printed no result line.
AllocationFatal ==
    (\E b \in Buffers : heap[b].state = "failed") =>
        /\ phase = "exit" /\ status = "failure"
        /\ stderr = "allocation failed"
        /\ ~printed
        /\ ts = <<>> /\ recorded = <<>> /\ calls["timed"].k = 0
        /\ ~ENABLED Next

\* C16 witness: the warmup has run on live gn and ou, and the allocation of
\* run_times has failed.
AllocationFatalReached ==
    /\ heap["run_times"].state = "failed"
    /\ heap["gn"].state = "live" /\ heap["ou"].state = "live"
    /\ calls["warmup"].k > 0

\* a >> 5 and b >> 6 of 32-bit values, by division
Top27(a) == a[1] * Pow2(11) + (a[2] \div Pow2(5))

Low26(b) == b[1] * Pow2(10) + (b[2] \div Pow2(6))

\* C17: a next_f64 call makes exactly two next_u32 draws, a then b, and
\* leaves the generator where the second draw left it; its integer is
\* k = (a >> 5) * 2^26 + (b >> 6), which lies in 0 .. 2^53 - 1, so that the
\* value k / 2^53 returned lies in [0, 1) and is never 1; the multiply-and-add
\* form of ou_bench.ts and the shift-and-OR form of ou_bench.c give the
\* same k.
UniformBits ==
    (phase = "rng" /\ calls["timed"].k > 0) =>
        (calls["timed"].last.kind = "f64" =>
            /\ calls["timed"].last.a = Draw(lang, calls["timed"].last.before).out
            /\ calls["timed"].last.b =
                  Draw(lang, Draw(lang, calls["timed"].last.before).rng).out
            /\ calls["timed"].last.after =
                  Draw(lang, Draw(lang, calls["timed"].last.before).rng).rng
            /\ pairs["timed"].rng = calls["timed"].last.after
            /\ calls["timed"].last.k = << Top27(calls["timed"].last.a),
                                          Low26(calls["timed"].last.b) >>
            /\ calls["timed"].last.k[1] \in 0..(Pow2(27) - 1)
            /\ calls["timed"].last.k[2] \in 0..(Pow2(26) - 1)
            /\ calls["timed"].last.val =
                  calls["timed"].last.k[1] \div Pow2(27 - FracBits)
            /\ calls["timed"].last.val \in 0..(Q - 1)
            /\ MulAdd53(Top27(calls["timed"].last.a), Low26(calls["timed"].last.b))
                  = ShlOr53(Top27(calls["timed"].last.a),
                            Low26(calls["timed"].last.b)))

\* C17 witness: the C generator has returned a uniform of at least 1/2 whose
\* integer has bits from both draws.
UniformBitsReached ==
    /\ lang = "c" /\ phase = "rng" /\ calls["timed"].k > 0
    /\ calls["timed"].last.kind = "f64"
    /\ calls["timed"].last.val >= Q \div 2
    /\ calls["timed"].last.k[2] > 0
    /\ calls["timed"].last.b[2] % Pow2(6) > 0

\* C19: the TypeScript generator, which computes on int32 values with | 0,
\* >>> and Math.imul, is after construction from any seed in the state
\* xorshift128_new gives, and each of its draws returns the value and leaves
\* the state that xorshift128_next_u32 does.
Parity ==
    (lang = "ts" /\ phase = "rng") =>
        /\ calls["timed"].k = 0 =>
              pairs["timed"].rng = xorshift128_new(args.seed)
        /\ calls["timed"].k > 0 =>
              /\ pairs["timed"].rng = calls["timed"].last.after
              /\ calls["timed"].last.kind = "u32" =>
                    /\ calls["timed"].last.out =
                          xorshift128_next_u32(calls["timed"].last.before).out
                    /\ calls["timed"].last.after =
                          xorshift128_next_u32(calls["timed"].last.before).rng
              /\ calls["timed"].last.kind = "f64" =>
                    /\ calls["timed"].last.after =
                          xorshift128_next_f64(calls["timed"].last.before).rng
                    /\ calls["timed"].last.k =
                          xorshift128_next_f64(calls["timed"].last.before).k

\* C19 witness: a TypeScript generator seeded beyond the int32 range has
\* made MaxDraws draws, the last returning a value beyond the int32 range.
ParityReached ==
    /\ lang = "ts" /\ phase = "rng" /\ i = MaxDraws
    /\ args.seed[1] >= Pow2(15)
    /\ calls["timed"].k = MaxDraws
    /\ calls["timed"].last.out[1] >= Pow2(15)

SpareFrame ==
    [][ \A p \in PairNames :
          (/\ phase \notin {"rng", "rng_new"}
           /\ pairs[p].live /\ pairs[p].norm.has_spare
           /\ calls'[p].k = calls[p].k + 1) =>
              /\ calls'[p].last.out = pairs[p].norm.spare
              /\ gn'[i] = FMul(DIFF(args.n), pairs[p].norm.spare)
              /\ ~pairs'[p].norm.has_spare
              /\ pairs'[p].norm.spare = pairs[p].norm.spare
              /\ pairs'[p].rng = pairs[p].rng
              /\ calls'[p].last.before = pairs[p].rng
              /\ calls'[p].last.after = pairs[p].rng
              /\ calls'[p].last.iters = 0 ]_vars

\* C20 witness: a call has returned a nonzero spare, which is still in the
\* spare field, and the generator is where the call found it.
SpareFrameReached ==
    \E p \in PairNames :
        /\ calls[p].k > 0 /\ ~calls[p].last.fresh
        /\ pairs[p].live /\ ~pairs[p].norm.has_spare
        /\ pairs[p].norm.spare # 0
        /\ calls[p].last.out = pairs[p].norm.spare
        /\ pairs[p].rng = calls[p].last.before

\* the generator after k next_u32 draws
RECURSIVE Adv(_, _)
Adv(rng, k) == IF k = 0 THEN rng ELSE Adv(xorshift128_next_u32(rng).rng, k - 1)

\* 2.0 * next_f64 - 1.0 of the next two draws
RefCoord(rng) ==
    2 * (Top27(xorshift128_next_u32(rng).out) \div Pow2(27 - FracBits)) - Q

\* s = u*u + v*v of the point the next four draws give
RefS2(rng) ==
    LET u == RefCoord(rng)
        v == RefCoord(Adv(rng, 2))
    IN  u * u + v * v

\* C21: a normal_polar_next call that runs the rejection loop takes log(s)
\* and divides by s only for the accepted s, which has 0 < s < 1; each of
\* the iters - 1 points before it had s <= 0 or s >= 1 and was discarded, the
\* spare cached being that of the accepted point alone; and each point, the
\* discarded ones included, cost exactly four next_u32 draws.
RejectionStep ==
    [][ \A p \in PairNames :
          (calls'[p].k = calls[p].k + 1 /\ calls'[p].last.fresh) =>
              LET c == calls'[p].last
                  accepted == Adv(c.before, 4 * (c.iters - 1))
              IN  /\ c.iters >= 1
                  /\ c.before = pairs[p].rng
                  /\ c.after = Adv(accepted, 4)
                  /\ pairs'[p].rng = c.after
                  /\ \A j \in 1..(c.iters - 1) :
                        RefS2(Adv(c.before, 4 * (j - 1))) \notin 1..(Q * Q - 1)
                  /\ c.s2 = RefS2(accepted)
                  /\ c.s2 \in 1..(Q * Q - 1)
                  /\ c.m = PolarM(c.s2)
                  /\ pairs'[p].norm = [has_spare |-> TRUE,
                                       spare |-> FMul(c.v, c.m)] ]_vars

\* C21 witness: a call has discarded a point before accepting the next.
RejectionStepReached ==
    \E p \in PairNames :
        /\ calls[p].k > 0 /\ calls[p].last.fresh
        /\ calls[p].last.iters >= 2
        /\ calls[p].last.after = Adv(calls[p].last.before, 8)

\* C22 (as stated): in a run with --mode=ou the noise buffer is filled
\* once, by n - 1 calls on a pair of its own constructed from the seed, before
\* the first warmup iteration and before any timestamp; no step of the
\* warmup or of a timed trial writes the noise buffer.
PrefillOnce ==
    [][ (args.mode = "ou" /\ inv' = inv) =>
          /\ phase \in {"warmup_new", "warmup", "timed_new", "timed", "stats"} =>
                /\ gn' = gn
                /\ calls["prefill"].k = args.n - 1
          /\ calls'["prefill"].k # calls["prefill"].k =>
                /\ phase = "prefill"
                /\ calls'["prefill"].k = calls["prefill"].k + 1
                /\ calls["prefill"].k = 0 =>
                      pairs["prefill"].rng = xorshift128_new(args.seed)
                /\ ~pairs["warmup"].live /\ calls["warmup"].k = 0
                /\ ts = <<>> /\ recorded = <<>> /\ r = 0 ]_vars

\* C23 (as stated): the step of a timed trial that adds the trial's sum to
\* checksum is taken after the trial's closing timestamp, so every
\* timestamp of the trial has been read when checksum changes.
ChecksumAfterStamp ==
    [][ (inv' = inv /\ phase = "timed" /\ checksum' # checksum) =>
            Len(ts) = Len(SelectSeq(TimedStages(EffMode),
                                    LAMBDA st : st = "stamp")) ]_vars

StagePartition ==
    [][ (inv' = inv /\ Len(recorded') = Len(recorded) + 1) =>
        LET gen == total_gen_s' - total_gen_s
            sim == total_sim_s' - total_sim_s
            chk == total_chk_s' - total_chk_s
        IN  /\ recorded'[Len(recorded')] = gen + sim + chk
            /\ args.mode = "gn" => sim = 0
            /\ args.mode = "ou" => gen = 0
            /\ total_gen_s' + total_sim_s' + total_chk_s' = total_s' ]_vars

\* C26: in every phase that uses the buffers the noise buffer has the n - 1
\* cells 0..n-2 (n - 1 >= 1) and the trajectory buffer the n cells 0..n-1;
\* every generate pass writes gn[i] with i in 0..n-2, every simulate stage
\* reads written noise cells only and writes each of ou[0..n-1], and every
\* checksum stage sums written cells only.
Working(ph) ==
    ph \in {"prefill_new", "prefill", "warmup_new", "warmup", "timed_new",
            "timed", "stats"}

Written(buf, len) == \A k \in 0..(len - 1) : buf[k] # Poison

IndexSafe ==
    [][ inv' = inv =>
        /\ Working(phase') =>
              /\ args.n - 1 >= 1
              /\ DOMAIN gn' = 0..(args.n - 2)
              /\ DOMAIN ou' = 0..(args.n - 1)
        /\ (\E p \in PairNames : calls'[p].k = calls[p].k + 1) =>
              /\ i \in 0..(args.n - 2)
              /\ gn'[i] # Poison
              /\ \A k \in DOMAIN gn \ {i} : gn'[k] = gn[k]
        /\ (phase \in {"warmup", "timed"} /\ Stage = "sim") =>
              /\ Written(gn, args.n - 1)
              /\ Written(ou', args.n)
              /\ ou'[0] = 0
        /\ (phase \in {"warmup", "timed"} /\ Stage = "chk") =>
              IF EffMode = "gn" THEN Written(gn, args.n - 1)
              ELSE Written(ou, args.n) ]_vars

\* C26 witness: the C program at its largest n, the last noise cell and the
\* last trajectory cell written in a timed trial.
IndexSafeReached ==
    /\ lang = "c" /\ args.n = MaxN
    /\ phase = "timed" /\ Stage = "chk"
    /\ calls["timed"].k >= MaxN - 1
    /\ gn[MaxN - 2] # Poison /\ ou[MaxN - 1] # Poison

\* C27: under --mode=ou the pair constructed for the timed trials is never
\* advanced, every timed trial after the first rewrites the trajectory with
\* the values it holds, every trial adds the same sum s, and the checksum
\* reported is s added `runs` times to zero.
RECURSIVE Accumulated(_, _)
Accumulated(x, k) == IF k = 0 THEN 0 ELSE Accumulated(x, k - 1) + x

TimedPairIdle ==
    [][ (inv' = inv /\ args.mode = "ou") =>
        /\ calls'["timed"].k = 0
        /\ pairs'["timed"] \in {NoPair, TimedPair}
        /\ (phase = "timed" /\ Stage = "sim" /\ r > 0) => ou' = ou
        /\ (phase = "timed" /\ Stage = "chk") =>
              /\ checksum' = checksum + s'
              /\ r > 0 => s' = s
        /\ phase' = "done" => checksum' = Accumulated(s', args.runs) ]_vars

(***************************************************************************)
(* The report's arithmetic in rounded doubles.  A double here has MantBits *)
(* significant bits (53 in the programs) and is held as a whole number of  *)
(* grains of 2^-(MantBits+4) s;    every operation rounds its exact result *)
(* to the nearest double, ties to the even significand.                    *)
(***************************************************************************)
MantBits == 3

Grain == Pow2(MantBits + 4)

\* the spacing of the doubles around num / den
RECURSIVE Spacing(_, _, _)
Spacing(num, den, st) ==
    IF num < den * st * Pow2(MantBits) THEN st ELSE Spacing(num, den, 2 * st)

\* num / den rounded to the nearest double
Nearest(num, den) ==
    LET st == Spacing(num, den, 1)
        q == num \div (den * st)
        rem == num % (den * st)
    IN  IF 2 * rem > den * st \/ (2 * rem = den * st /\ q % 2 = 1)
        THEN (q + 1) * st
        ELSE q * st

\* (double)(t3 - t0) * 1e-9
RoundedSecs(x) == Nearest(x * Grain, 1)

\* total_s += run, trial after trial
RECURSIVE RoundedTotal(_)
RoundedTotal(a) ==
    IF a = <<>> THEN 0
    ELSE Nearest(RoundedTotal(SubSeq(a, 1, Len(a) - 1))
                 + RoundedSecs(a[Len(a)]), 1)

\* x_s * 1000.0
RoundedMilli(x) == Nearest(x * 1000, 1)

\* min_ms, max_ms: min_s * 1000.0, max_s * 1000.0
RoundedMs(x_s) == RoundedMilli(RoundedSecs(x_s))

\* (total_s / (double)args.runs) * 1000.0
RoundedAvgMs == RoundedMilli(Nearest(RoundedTotal(recorded), args.runs))

\* median_s * 1000.0 of the sorted run_times
RoundedMedianMs ==
    LET runs == Len(run_times)
    IN  RoundedMilli(IF runs % 2 = 1
                     THEN RoundedSecs(run_times[(runs \div 2) + 1])
                     ELSE Nearest(Nearest(RoundedSecs(run_times[runs \div 2])
                                          + RoundedSecs(run_times[(runs \div 2) + 1]),
                                          1), 2))

\* C28 (as stated): in the report min_ms <= median_ms <= max_ms and
\* min_ms <= avg_ms <= max_ms, and with runs = 1 the four are equal.
StatisticsOrderedAsStated ==
    phase = "done" =>
        /\ RoundedMs(min_s) <= RoundedMedianMs /\ RoundedMedianMs <= RoundedMs(max_s)
        /\ RoundedMs(min_s) <= RoundedAvgMs /\ RoundedAvgMs <= RoundedMs(max_s)
        /\ args.runs = 1 =>
              /\ RoundedAvgMs = RoundedMs(min_s) /\ RoundedMedianMs = RoundedMs(min_s)
              /\ RoundedMs(max_s) = RoundedMs(min_s)

\* C28 (amended): in the report min_ms <= median_ms <= max_ms, and with
\* runs = 1 the four are equal; min_ms <= avg_ms <= max_ms holds for the
\* exact sum of the durations (the rounded running sum total_s can carry
\* avg_ms past either end).
StatisticsOrdered ==
    phase = "done" =>
        /\ RoundedMs(min_s) <= RoundedMedianMs /\ RoundedMedianMs <= RoundedMs(max_s)
        /\ min_ms <= Milli(median_s) /\ Milli(median_s) <= max_ms
        /\ min_ms <= avg_ms /\ avg_ms <= max_ms
        /\ args.runs * min_s <= total_s /\ total_s <= args.runs * max_s
        /\ args.runs = 1 =>
              /\ RoundedAvgMs = RoundedMs(min_s) /\ RoundedMedianMs = RoundedMs(min_s)
              /\ RoundedMs(max_s) = RoundedMs(min_s)
              /\ avg_ms = min_ms /\ Milli(median_s) = min_ms /\ max_ms = min_ms

\* C28 witness: a report of three trials of different durations, the
\* average strictly between the extremes.
StatisticsOrderedReached ==
    /\ phase = "done" /\ args.runs = 3
    /\ min_ms < avg_ms /\ avg_ms < max_ms
    /\ min_ms < Milli(median_s) /\ Milli(median_s) < max_ms

\* the digits of 2^53
Lim53 ==
    <<"9", "0", "0", "7", "1", "9", "9", "2", "5", "4", "7", "4", "0", "9", "9", "2">>

\* the text is digits only and denotes a whole number v with 0 <= v < 2^53
Below53(text) ==
    /\ Len(text) >= 1 /\ Len(text) <= Len(Lim53)
    /\ \A k \in 1..Len(text) : IsDigit(text[k])
    /\ Len(text) = Len(Lim53) =>
          \E k \in 1..Len(text) :
              /\ \A j \in 1..(k - 1) : text[j] = Lim53[j]
              /\ DigitVal(text[k]) < DigitVal(Lim53[k])

\* v mod 2^32 of the number v the digits denote, hi * 2^16 + lo standing
\* for the digits before index k
RECURSIVE ResidueFrom(_, _, _, _)
ResidueFrom(text, k, hi, lo) ==
    IF k > Len(text) THEN <<hi, lo>>
    ELSE ResidueFrom(text, k + 1,
                     (10 * hi + ((10 * lo + DigitVal(text[k])) \div H)) % H,
                     (10 * lo + DigitVal(text[k])) % H)

Residue(text) == ResidueFrom(text, 1, 0, 0)

\* C29: once parse_args has taken --seed=v with 0 <= v < 2^53 it has not
\* stopped, and the seed it holds is v mod 2^32; every other such value with
\* the same residue (v + 2^32 among them) is accepted as well and gives the
\* same initial generator state.
SeedReduced ==
    (argi >= 1 /\ argv[argi][1] = "seed" /\ Below53(argv[argi][2])) =>
        /\ phase # "exit" /\ status # "failure"
        /\ args.seed = Residue(argv[argi][2])
        /\ \A t \in NumTexts \cup SeedTexts :
              (/\ Below53(t)
               /\ Residue(t) = Residue(argv[argi][2])) =>
                  /\ SeedValue(lang, t).ok
                  /\ xorshift128_new(SeedValue(lang, t).val)
                        = xorshift128_new(args.seed)

\* C29 witness: the TypeScript program has taken --seed=9007199254740991
\* (2^53 - 1, which is 9007194959773695 + 2^32) and holds 2^32 - 1.
SeedReducedReached ==
    /\ lang = "ts" /\ phase = "alloc" /\ argi = 1
    /\ argv[1] = <<"seed", <<"9", "0", "0", "7", "1", "9", "9", "2", "5", "4",
                             "7", "4", "0", "9", "9", "1">> >>
    /\ args.seed = <<H - 1, H - 1>>

\* the four splitmix32_next results xorshift128_new draws for a seed
SeedWords(seed) ==
    LET r1 == splitmix32_next(seed)
        r2 == splitmix32_next(r1.s)
        r3 == splitmix32_next(r2.s)
        r4 == splitmix32_next(r3.s)
    IN  <<r1, r2, r3, r4>>

====
